---- MODULE Spec2Model ----
(***************************************************************************)
(* School holidays LU calendar integration: the config flow, the calendar  *)
(* entity's range query (URL fetch, fallback file, record normalisation)   *)
(* and the data update coordinator.                                        *)
(*                                                                         *)
(* Python values are tagged tuples: <<"null">> (None / JSON null),         *)
(* <<"num", n>>, <<"str", s>> with s a sequence of one-character strings,  *)
(* <<"list", seq>>, <<"obj", f>> with f a function from keys to values.    *)
(***************************************************************************)
EXTENDS Integers, Sequences, FiniteSets, TLC

VARIABLES flows, entries, preferred_lang,
          qpc, qwin, qresp, qgot, qfetch, qsrc, qout, lastGood,
          cpc, cresp, cout, summaryCall

vars == <<flows, entries, preferred_lang,
          qpc, qwin, qresp, qgot, qfetch, qsrc, qout, lastGood,
          cpc, cresp, cout, summaryCall>>

flowVars == <<flows, entries>>
calVars == <<preferred_lang, qpc, qwin, qresp, qgot, qfetch, qsrc, qout, lastGood>>
coordVars == <<cpc, cresp, cout, summaryCall>>

----------------------------------------------------------------------------
(* Bounds *)

\* longest payload list drawn for a response or the fallback file
MaxLen == 3
\* query windows start and end on days 1..MaxDay of July 2025
MaxDay == 4
\* number of config flows the host may have in progress
NumFlows == 3

----------------------------------------------------------------------------
(* Python values *)

None == <<"null">>
JNum(n) == <<"num", n>>
JStr(s) == <<"str", s>>
JList(s) == <<"list", s>>
JObj(f) == <<"obj", f>>

IsStr(v) == v[1] = "str"
IsObj(v) == v[1] = "obj"

\* bool(v)
Truthy(v) ==
    CASE v[1] = "null" -> FALSE
      [] v[1] = "num" -> v[2] # 0
      [] v[1] = "str" -> v[2] # <<>>
      [] v[1] = "list" -> v[2] # <<>>
      [] v[1] = "obj" -> DOMAIN v[2] # {}
      [] OTHER -> TRUE

\* key in d
In(key, d) == key \in DOMAIN d[2]

\* d.get(key)
Get(d, key) == IF In(key, d) THEN d[2][key] ELSE None

Digits == <<"0", "1", "2", "3", "4", "5", "6", "7", "8", "9">>

IsDigit(c) == \E i \in 1..10 : Digits[i] = c

DigitVal(c) == (CHOOSE i \in 1..10 : Digits[i] = c) - 1

RECURSIVE NatToStr(_)
NatToStr(n) == IF n < 10 THEN <<Digits[n + 1]>>
               ELSE NatToStr(n \div 10) \o <<Digits[(n % 10) + 1]>>

\* str(v) as an f-string renders it
PyStr(v) ==
    CASE v[1] = "str" -> v[2]
      [] v[1] = "num" -> NatToStr(v[2])
      [] OTHER -> <<"?">>

\* str.lower() on the language codes
Lower(s) ==
    CASE s = "EN" -> "en"
      [] s = "FR" -> "fr"
      [] s = "DE" -> "de"
      [] s = "LB" -> "lb"
      [] OTHER -> s

----------------------------------------------------------------------------
(* Dates *)

IsLeap(y) == (y % 4 = 0 /\ y % 100 # 0) \/ y % 400 = 0

DaysInMonth(y, m) ==
    IF m = 2 THEN (IF IsLeap(y) THEN 29 ELSE 28)
    ELSE IF m \in {4, 6, 9, 11} THEN 30 ELSE 31

Num2(s, i) == 10 * DigitVal(s[i]) + DigitVal(s[i + 1])

Num4(s, i) == 100 * Num2(s, i) + Num2(s, i + 2)

Fmt2(n) == <<Digits[(n \div 10) + 1], Digits[(n % 10) + 1]>>

\* date.isoformat()
IsoFormat(y, m, d) == Fmt2(y \div 100) \o Fmt2(y % 100) \o <<"-">> \o Fmt2(m) \o <<"-">> \o Fmt2(d)

\* date.fromisoformat(v): <<"ok", <<y, m, d>>>>, <<"ValueError">> or <<"TypeError">>
FromIsoFormat(v) ==
    IF ~IsStr(v) THEN <<"TypeError">>
    ELSE LET s == v[2] IN
         IF /\ Len(s) = 10
            /\ s[5] = "-"
            /\ s[8] = "-"
            /\ \A i \in {1, 2, 3, 4, 6, 7, 9, 10} : IsDigit(s[i])
         THEN LET y == Num4(s, 1)
                  m == Num2(s, 6)
                  d == Num2(s, 9)
              IN IF y >= 1 /\ m \in 1..12 /\ d >= 1 /\ d <= DaysInMonth(y, m)
                 THEN <<"ok", <<y, m, d>>>>
                 ELSE <<"ValueError">>
         ELSE <<"ValueError">>

\* a < b on dates
DateLt(a, b) ==
    \/ a[1] < b[1]
    \/ a[1] = b[1] /\ a[2] < b[2]
    \/ a[1] = b[1] /\ a[2] = b[2] /\ a[3] < b[3]

DateLe(a, b) == a = b \/ DateLt(a, b)

\* datetime.date(): a datetime is <<y, m, d, hour>>
DatePart(dt) == <<dt[1], dt[2], dt[3]>>

----------------------------------------------------------------------------
(* Module constants *)

\* calendar.py: SUPPORTED_LANGUAGES
CalSupportedLanguages == <<"en", "fr", "de", "lb">>

\* const.py: SUPPORTED_LANGUAGES
ConstSupportedLanguages == <<"EN", "FR", "DE", "LB">>

\* config_flow.py: SUPPORTED_LANGUAGES (the choices of DATA_SCHEMA)
FlowSupportedLanguages == <<"EN", "FR", "DE", "LB">>

\* calendar.py: default of fallback_lang in _get_localized_summary
CalFallbackLang == "en"

\* coordinator.py: default of fallback_lang in get_localized_summary
CoordFallbackLang == "EN"

UnknownEvent == JStr(<<"U", "n", "k", "n", "o", "w", "n", " ", "E", "v", "e", "n", "t">>)

----------------------------------------------------------------------------
(* Localized summary *)

\* for lang in langs: if lang in data: return data[lang]; else "Unknown Event"
RECURSIVE FirstSupported(_, _, _)
FirstSupported(langs, i, data) ==
    IF i > Len(langs) THEN UnknownEvent
    ELSE IF In(langs[i], data) THEN data[2][langs[i]]
    ELSE FirstSupported(langs, i + 1, data)

\* calendar.py: _get_localized_summary, nested in async_get_events
CalGetLocalizedSummary(localized_summary_data, preferred, fallback_lang) ==
    IF In(preferred, localized_summary_data)
    THEN localized_summary_data[2][preferred]
    ELSE IF In(fallback_lang, localized_summary_data)
    THEN localized_summary_data[2][fallback_lang]
    ELSE FirstSupported(CalSupportedLanguages, 1, localized_summary_data)

\* coordinator.py: HolidaysDataUpdateCoordinator.get_localized_summary
get_localized_summary(localized_summary_data, preferred, fallback_lang) ==
    IF In(preferred, localized_summary_data)
    THEN localized_summary_data[2][preferred]
    ELSE IF In(fallback_lang, localized_summary_data)
    THEN localized_summary_data[2][fallback_lang]
    ELSE FirstSupported(ConstSupportedLanguages, 1, localized_summary_data)

----------------------------------------------------------------------------
(* Event normalisation: the body of the loop of async_get_events *)

\* hashlib.sha256(s.encode("utf-8")).hexdigest(): a string determined by s,
\* different for different s (no collisions)
Sha256Hex(s) == JStr(<<"sha256:">> \o s)

UniqueStringNoEnd(summary, start_dt_str, end_dt_str) ==
    PyStr(summary) \o PyStr(start_dt_str)

\* f"{summary}{start_dt_str}{end_dt_str}"
UniqueString(summary, start_dt_str, end_dt_str) ==
    PyStr(summary) \o PyStr(start_dt_str) \o PyStr(end_dt_str)

\* if not uid: uid = sha256(unique_string)
ResolveUid(uid, summary, start_dt_str, end_dt_str) ==
    IF ~Truthy(uid)
    THEN Sha256Hex(UniqueString(summary, start_dt_str, end_dt_str))
    ELSE uid

AllPresentDatesOnly(summary, start_dt_str, end_dt_str) ==
    Truthy(start_dt_str) /\ Truthy(end_dt_str)

\* all([summary, start_dt_str, end_dt_str])
AllPresent(summary, start_dt_str, end_dt_str) ==
    Truthy(summary) /\ Truthy(start_dt_str) /\ Truthy(end_dt_str)

\* end_dt <= start_date.date() or start_dt >= end_date.date()
OutsideRange(start_dt, end_dt, start_date, end_date) ==
    \/ DateLe(end_dt, DatePart(start_date))
    \/ DateLe(DatePart(end_date), start_dt)

\* CalendarEvent(summary=..., start=..., end=..., description=..., location=..., uid=...)
CalendarEvent(summary, start_dt, end_dt, description, location, uid) ==
    [summary |-> summary, start |-> start_dt, end |-> end_dt,
     description |-> description, location |-> location, uid |-> uid]

\* One pass of the loop body: <<"event", e>> when an event is appended,
\* <<"skip", why>> when the record is left out (continue)
ProcessRecord(raw_event, preferred, start_date, end_date) ==
    IF ~IsObj(raw_event) THEN <<"skip", "AttributeError">>
    ELSE
    LET start_dt_str == Get(raw_event, "start_date")
        end_dt_str == Get(raw_event, "end_date")
        uid == Get(raw_event, "uid")
        summary == CalGetLocalizedSummary(raw_event, preferred, CalFallbackLang)
    IN  IF ~AllPresent(summary, start_dt_str, end_dt_str)
        THEN <<"skip", "malformed">>
        ELSE
        LET ps == FromIsoFormat(start_dt_str)
            pe == FromIsoFormat(end_dt_str)
        IN  IF ps[1] # "ok" THEN <<"skip", ps[1]>>
            ELSE IF pe[1] # "ok" THEN <<"skip", pe[1]>>
            ELSE IF OutsideRange(ps[2], pe[2], start_date, end_date)
            THEN <<"skip", "range">>
            ELSE <<"event",
                   CalendarEvent(summary, ps[2], pe[2],
                                 Get(raw_event, "description"),
                                 Get(raw_event, "location"),
                                 ResolveUid(uid, summary, start_dt_str, end_dt_str))>>

\* for raw_event in raw_events: lists yield their elements, strings their
\* characters, mappings their keys; anything else is not iterable
Iterable(raw_events) == raw_events[1] \in {"list", "str", "obj"}

RECURSIVE KeySeq(_)
KeySeq(S) == IF S = {} THEN <<>>
             ELSE LET k == CHOOSE x \in S : TRUE
                  IN <<JStr(<<k>>)>> \o KeySeq(S \ {k})

Elements(raw_events) ==
    CASE raw_events[1] = "list" -> raw_events[2]
      [] raw_events[1] = "str" -> [i \in 1..Len(raw_events[2]) |-> JStr(<<raw_events[2][i]>>)]
      [] raw_events[1] = "obj" -> KeySeq(DOMAIN raw_events[2])
      [] OTHER -> <<>>

\* The loop: the pairs <<index of the record, event appended for it>>, in order
RECURSIVE Walk(_, _, _, _, _)
Walk(elems, i, preferred, start_date, end_date) ==
    IF i > Len(elems) THEN <<>>
    ELSE LET r == ProcessRecord(elems[i], preferred, start_date, end_date)
         IN (IF r[1] = "event" THEN <<<<i, r[2]>>>> ELSE <<>>)
            \o Walk(elems, i + 1, preferred, start_date, end_date)

NoOutcome == [kind |-> "none", events |-> <<>>, origin |-> <<>>, exc |-> ""]

\* return events (origin: for each event, the index of its raw record)
Returned(pairs) ==
    [kind |-> "return",
     events |-> [k \in 1..Len(pairs) |-> pairs[k][2]],
     origin |-> [k \in 1..Len(pairs) |-> pairs[k][1]],
     exc |-> ""]

Raised(cls) == [kind |-> "raise", events |-> <<>>, origin |-> <<>>, exc |-> cls]

\* Lines 168-221 on a raw_events that is not None
BuildEvents(raw_events, preferred, start_date, end_date) ==
    IF ~Iterable(raw_events) THEN Raised("TypeError")
    ELSE Returned(Walk(Elements(raw_events), 1, preferred, start_date, end_date))

----------------------------------------------------------------------------
(* Inputs: raw records, payloads, responses, fallback file contents, windows *)

S(c) == JStr(<<c>>)

Day(d) == JStr(IsoFormat(2025, 7, d))

\* start_date "2025-07-32"
BadDay == JStr(<<"2", "0", "2", "5", "-", "0", "7", "-", "3", "2">>)

MasterRecords ==
    << JObj([EN |-> S("S"), FR |-> S("V"), start_date |-> Day(2), end_date |-> Day(3)]),
       JObj([FR |-> S("V"), start_date |-> BadDay, end_date |-> Day(3)]),
       JObj([LB |-> S("L"), start_date |-> Day(1), end_date |-> Day(2), uid |-> S("u")]),
       JNum(7),
       JObj([en |-> S("s"), fr |-> S("v"), start_date |-> Day(2), end_date |-> Day(2),
             description |-> S("d")]),
       JObj([en |-> JStr(<<>>), fr |-> JStr(<<>>), de |-> JStr(<<>>), lb |-> JStr(<<>>),
             start_date |-> Day(2), end_date |-> Day(3)]),
       JObj([EN |-> S("S"), start_date |-> Day(2)]),
       JObj([DE |-> S("F"), start_date |-> JNum(5), end_date |-> Day(3)]),
       JObj([start_date |-> Day(2), end_date |-> Day(3), location |-> S("l")]),
       JObj([en |-> JNum(5), uid |-> JStr(<<>>), start_date |-> Day(3), end_date |-> Day(4)]) >>

\* the payload lists: the runs of at most MaxLen consecutive master records
Payloads ==
    { JList(SubSeq(MasterRecords, r[1], r[1] + r[2] - 1)) :
        r \in { x \in (1..Len(MasterRecords)) \X (1..MaxLen) :
                   x[1] + x[2] - 1 <= Len(MasterRecords) } } \cup {JList(<<>>)}

\* JSON bodies that are not lists
OddBodies == { JNum(42), JStr(<<"a", "b">>), JObj([EN |-> S("S")]) }

\* a body that response.json() / json.load() cannot decode
Invalid == <<"invalid">>

Bodies == Payloads \cup OddBodies

\* what the fallback file may hold when it exists and is read
FileBodies ==
    { JList(<<JObj([en |-> S("f"), start_date |-> Day(1), end_date |-> Day(4)])>>),
      JNum(42), None }

Dt(d) == <<2025, 7, d, 0>>

Windows ==
    { w \in { <<Dt(a), Dt(b)>> : a \in 1..MaxDay, b \in 1..MaxDay } :
        DateLt(DatePart(w[1]), DatePart(w[2])) }

\* the callers and data of the concurrent specification
Queries == {"q1", "q2"}

ConcBodies == { JList(<<MasterRecords[1]>>), JList(<<MasterRecords[5], MasterRecords[3]>>) }

ConcWindows == { <<Dt(1), Dt(3)>>, <<Dt(2), Dt(4)>> }

\* what session.get(...) may produce: a response with a status and a body,
\* or an exception of some class
Responses(bodies) ==
    { <<"status", 200, b>> : b \in bodies \cup {None, Invalid} }
    \cup { <<"status", 404, None>> }
    \cup { <<"exc", c, None>> : c \in {"OSError", "HttpProcessingError", "ClientError"} }

\* what the fallback file may be: absent, unreadable, not JSON, or JSON
FileStates == { <<"absent">>, <<"oserror">>, Invalid } \cup FileBodies

----------------------------------------------------------------------------
(* Config flow: HASSURLCalendarConfigFlow *)

Flows == 1..NumFlows

NoInput == "None"

AbortsOnlyWhenFormShown(current_entries, user_input) ==
    current_entries # <<>> /\ user_input = NoInput

\* if self._async_current_entries(): return self.async_abort(...)
AbortsSingleInstance(current_entries, user_input) == current_entries # <<>>

\* async_step_user(user_input): called with None when the flow starts and
\* with the submitted form afterwards (or with data at once); the host adds
\* the entry of a create-entry result before any other flow step runs.
\* A flow is [result: the last step's result, shown: the form was shown]
StepUser(f, user_input) ==
    /\ \/ flows[f].result = "none"
       \/ flows[f].result = "form" /\ user_input # NoInput
    /\ IF AbortsSingleInstance(entries, user_input)
       THEN /\ flows' = [flows EXCEPT ![f].result = "abort_single_instance_allowed"]
            /\ UNCHANGED entries
       ELSE IF user_input # NoInput
       THEN /\ entries' = Append(entries, [language |-> user_input])
            /\ flows' = [flows EXCEPT ![f].result = "create_entry"]
       ELSE /\ flows' = [flows EXCEPT ![f] = [result |-> "form", shown |-> TRUE]]
            /\ UNCHANGED entries
    /\ UNCHANGED <<calVars, coordVars>>

\* async_step_import(import_config)
StepImport(f) ==
    /\ flows[f].result = "none"
    /\ flows' = [flows EXCEPT ![f].result = "abort_not_supported"]
    /\ UNCHANGED <<entries, calVars, coordVars>>

----------------------------------------------------------------------------
(* Calendar entity: CustomCalendarEntity *)

NoResp == <<"none">>

\* config_entry.data.get(CONF_LANGUAGE, "EN").lower()
PreferredLang(config_entry) == Lower(config_entry.language)

\* calendar.async_setup_entry: the entity is created from the config entry
SetupEntry ==
    /\ preferred_lang = ""
    /\ entries # <<>>
    /\ preferred_lang' = PreferredLang(entries[1])
    /\ UNCHANGED <<flowVars, qpc, qwin, qresp, qgot, qfetch, qsrc, qout, lastGood, coordVars>>

StoreRespShared(resp, q, body) == [p \in DOMAIN resp |-> body]

\* `response` is a local of the call
StoreResp(resp, q, body) == [resp EXCEPT ![q] = body]

\* async_get_events(hass, start_date, end_date) up to its first await
Call(q, w) ==
    /\ preferred_lang # ""
    /\ qpc[q] \in {"idle", "done"}
    /\ qpc' = [qpc EXCEPT ![q] = "get"]
    /\ qwin' = [qwin EXCEPT ![q] = w]
    /\ qgot' = [qgot EXCEPT ![q] = NoResp]
    /\ qfetch' = [qfetch EXCEPT ![q] = "none"]
    /\ qsrc' = [qsrc EXCEPT ![q] = "none"]
    /\ qout' = [qout EXCEPT ![q] = NoOutcome]
    /\ UNCHANGED <<flowVars, preferred_lang, qresp, lastGood, coordVars>>

\* session.get(...) completes: status 200 goes on to read the body; any other
\* status, and any exception, leave raw_events None and go to the fallback
GetResponse(q, r) ==
    /\ qpc[q] = "get"
    /\ IF r[1] = "status" /\ r[2] = 200
       THEN /\ qpc' = [qpc EXCEPT ![q] = "json"]
            /\ qresp' = StoreResp(qresp, q, r[3])
            /\ qgot' = [qgot EXCEPT ![q] = r[3]]
            /\ UNCHANGED qfetch
       ELSE /\ qpc' = [qpc EXCEPT ![q] = "file"]
            /\ qfetch' = [qfetch EXCEPT ![q] = r[1]]
            /\ UNCHANGED <<qresp, qgot>>
    /\ UNCHANGED <<flowVars, preferred_lang, qwin, qsrc, qout, lastGood, coordVars>>

\* await response.json() completes; a body that does not decode raises inside
\* the try and is caught; raw_events None goes to the fallback, anything else
\* is processed and returned
JsonRead(q) ==
    /\ qpc[q] = "json"
    /\ LET raw_events == IF qresp[q] = Invalid THEN None ELSE qresp[q]
       IN IF raw_events = None
          THEN /\ qpc' = [qpc EXCEPT ![q] = "file"]
               /\ qfetch' = [qfetch EXCEPT ![q] = "nodata"]
               /\ UNCHANGED <<qsrc, qout, lastGood>>
          ELSE /\ qpc' = [qpc EXCEPT ![q] = "done"]
               /\ qfetch' = [qfetch EXCEPT ![q] = "ok"]
               /\ qsrc' = [qsrc EXCEPT ![q] = "url"]
               /\ qout' = [qout EXCEPT ![q] =
                              BuildEvents(raw_events, preferred_lang, qwin[q][1], qwin[q][2])]
               /\ lastGood' = raw_events
    /\ qresp' = [qresp EXCEPT ![q] = NoResp]
    /\ UNCHANGED <<flowVars, preferred_lang, qwin, qgot, coordVars>>

\* _async_load_events_from_file: None when the file is absent, unreadable or
\* not JSON, else its parsed content
LoadEventsFromFile(f) ==
    IF f \in {<<"absent">>, <<"oserror">>, Invalid} THEN None ELSE f

\* the fallback load completes and the call returns
FileLoad(q, f) ==
    /\ qpc[q] = "file"
    /\ LET raw_events == LoadEventsFromFile(f)
       IN IF raw_events = None
          THEN /\ qsrc' = [qsrc EXCEPT ![q] = "nothing"]
               /\ qout' = [qout EXCEPT ![q] = Returned(<<>>)]
               /\ UNCHANGED qgot
          ELSE /\ qsrc' = [qsrc EXCEPT ![q] = "file"]
               /\ qgot' = [qgot EXCEPT ![q] = raw_events]
               /\ qout' = [qout EXCEPT ![q] =
                              BuildEvents(raw_events, preferred_lang, qwin[q][1], qwin[q][2])]
    /\ qpc' = [qpc EXCEPT ![q] = "done"]
    /\ UNCHANGED <<flowVars, preferred_lang, qwin, qresp, qfetch, lastGood, coordVars>>

----------------------------------------------------------------------------
(* Coordinator: HolidaysDataUpdateCoordinator *)

CoordNone == [kind |-> "none", exc |-> "", data |-> None]

\* except (OSError, aiohttp.http_exceptions.HttpProcessingError)
CoordCatches(cls) == cls \in {"OSError", "HttpProcessingError"}

\* _async_update_data up to its first await
CoordStart ==
    /\ cpc = "idle"
    /\ cpc' = "get"
    /\ cout' = CoordNone
    /\ UNCHANGED <<flowVars, calVars, cresp, summaryCall>>

\* session.get(...) completes
CoordResponse(r) ==
    /\ cpc = "get"
    /\ IF r[1] = "status" /\ r[2] = 200
       THEN /\ cpc' = "json"
            /\ cresp' = r[3]
            /\ UNCHANGED cout
       ELSE IF r[1] = "status"
       THEN /\ cpc' = "idle"
            /\ cout' = [kind |-> "raise", exc |-> "UpdateFailed", data |-> None]
            /\ UNCHANGED cresp
       ELSE /\ cpc' = "idle"
            /\ cout' = [kind |-> "raise",
                        exc |-> IF CoordCatches(r[2]) THEN "UpdateFailed" ELSE r[2],
                        data |-> None]
            /\ UNCHANGED cresp
    /\ UNCHANGED <<flowVars, calVars, summaryCall>>

\* await response.json() completes
CoordJson ==
    /\ cpc = "json"
    /\ cpc' = "idle"
    /\ cresp' = NoResp
    /\ cout' = IF cresp = Invalid
               THEN [kind |-> "raise",
                     exc |-> IF CoordCatches("JSONDecodeError") THEN "UpdateFailed"
                             ELSE "JSONDecodeError",
                     data |-> None]
               ELSE IF cresp = None
               THEN [kind |-> "raise", exc |-> "UpdateFailed", data |-> None]
               ELSE [kind |-> "return", exc |-> "", data |-> cresp]
    /\ UNCHANGED <<flowVars, calVars, summaryCall>>

NoCall == [data |-> None, preferred |-> "", result |-> None]

LanguageCodes == {"EN", "FR", "DE", "LB", "en", "fr", "de", "lb"}

\* a call of get_localized_summary(localized_summary_data, preferred_lang)
CoordSummary(data, preferred) ==
    /\ IsObj(data)
    /\ summaryCall' = [data |-> data, preferred |-> preferred,
                       result |-> get_localized_summary(data, preferred, CoordFallbackLang)]
    /\ UNCHANGED <<flowVars, calVars, cpc, cresp, cout>>

----------------------------------------------------------------------------
(* Specifications *)

FlowLanguages == {FlowSupportedLanguages[i] : i \in DOMAIN FlowSupportedLanguages}

\* nothing configured, nothing running
Init ==
    /\ flows = [f \in Flows |-> [result |-> "none", shown |-> FALSE]]
    /\ entries = <<>>
    /\ preferred_lang = ""
    /\ qpc = [q \in Queries |-> "idle"]
    /\ qwin = [q \in Queries |-> <<Dt(1), Dt(2)>>]
    /\ qresp = [q \in Queries |-> NoResp]
    /\ qgot = [q \in Queries |-> NoResp]
    /\ qfetch = [q \in Queries |-> "none"]
    /\ qsrc = [q \in Queries |-> "none"]
    /\ qout = [q \in Queries |-> NoOutcome]
    /\ lastGood = NoResp
    /\ cpc = "idle"
    /\ cresp = NoResp
    /\ cout = CoordNone
    /\ summaryCall = NoCall

\* a config entry exists (the first flow created it), nothing running
InitConfigured ==
    /\ flows = [f \in Flows |-> [result |-> IF f = 1 THEN "create_entry" ELSE "none",
                                  shown |-> f = 1]]
    /\ \E lang \in FlowLanguages : entries = <<[language |-> lang]>>
    /\ preferred_lang = ""
    /\ qpc = [q \in Queries |-> "idle"]
    /\ qwin = [q \in Queries |-> <<Dt(1), Dt(2)>>]
    /\ qresp = [q \in Queries |-> NoResp]
    /\ qgot = [q \in Queries |-> NoResp]
    /\ qfetch = [q \in Queries |-> "none"]
    /\ qsrc = [q \in Queries |-> "none"]
    /\ qout = [q \in Queries |-> NoOutcome]
    /\ lastGood = NoResp
    /\ cpc = "idle"
    /\ cresp = NoResp
    /\ cout = CoordNone
    /\ summaryCall = NoCall

FlowInputs == {NoInput} \cup FlowLanguages

NextFlow ==
    \/ \E f \in Flows, user_input \in FlowInputs : StepUser(f, user_input)
    \/ \E f \in Flows : StepImport(f)

NextCal ==
    \/ SetupEntry
    \/ \E w \in Windows : Call("q1", w)
    \/ \E r \in Responses(Bodies) : GetResponse("q1", r)
    \/ JsonRead("q1")
    \/ \E f \in FileStates : FileLoad("q1", f)

NextConc ==
    \/ SetupEntry
    \/ \E q \in Queries, w \in ConcWindows : Call(q, w)
    \/ \E q \in Queries, r \in Responses(ConcBodies) : GetResponse(q, r)
    \/ \E q \in Queries : JsonRead(q)
    \/ \E q \in Queries, f \in FileStates : FileLoad(q, f)

NextCoord ==
    \/ CoordStart
    \/ \E r \in Responses(Bodies) : CoordResponse(r)
    \/ CoordJson
    \/ \E i \in DOMAIN MasterRecords, preferred \in LanguageCodes :
          CoordSummary(MasterRecords[i], preferred)

Next ==
    \/ NextFlow
    \/ \E q \in Queries, w \in Windows : Call(q, w)
    \/ \E q \in Queries, r \in Responses(Bodies) : GetResponse(q, r)
    \/ \E q \in Queries : JsonRead(q)
    \/ \E q \in Queries, f \in FileStates : FileLoad(q, f)
    \/ SetupEntry
    \/ NextCoord

\* the whole integration
Spec == Init /\ [][Next]_vars

\* the config flow alone
SpecFlow == Init /\ [][NextFlow]_vars

\* the calendar entity of a configured instance, one caller at a time
SpecCal == InitConfigured /\ [][NextCal]_vars

\* the calendar entity of a configured instance, two concurrent callers
SpecConc == InitConfigured /\ [][NextConc]_vars

\* the coordinator alone
SpecCoord == Init /\ [][NextCoord]_vars

----------------------------------------------------------------------------
(* Properties *)

Done(q) == qpc[q] = "done"

\* the call returned events built from a payload (the URL's or the file's)
HasSource(q) == Done(q) /\ qsrc[q] \in {"url", "file"} /\ qout[q].kind = "return"

\* the raw record the k-th returned event was built from
SourceRecord(q, k) == Elements(qgot[q])[qout[q].origin[k]]

\* the resolution order as specified: preferred, EN, then EN, FR, DE, LB
SpecifiedSummary(data, preferred) ==
    IF In(preferred, data) THEN data[2][preferred]
    ELSE IF In("EN", data) THEN data[2]["EN"]
    ELSE FirstSupported(<<"EN", "FR", "DE", "LB">>, 1, data)

\* C1: every returned event's summary is the one the specified order gives
\* for its record and the entity's preferred language: preferred key, else
\* EN, else the first present of EN, FR, DE, LB, else "Unknown Event"
C1_SummaryOrder ==
    \A q \in Queries : HasSource(q) =>
        \A k \in 1..Len(qout[q].events) :
            qout[q].events[k].summary = SpecifiedSummary(SourceRecord(q, k), preferred_lang)

\* C1 (coordinator): get_localized_summary follows the specified order
C1_CoordinatorOrder ==
    summaryCall # NoCall =>
        summaryCall.result = SpecifiedSummary(summaryCall.data, summaryCall.preferred)

UpperKeysOnly(rec) == DOMAIN rec[2] \cap {"en", "fr", "de", "lb"} = {}

\* C2: for a record with uppercase keys that has the configured language L,
\* the returned event's summary is the record's value under L
C2_PreferredWins ==
    \A q \in Queries : HasSource(q) =>
        \A k \in 1..Len(qout[q].events) :
            LET rec == SourceRecord(q, k)
                L == entries[1].language
            IN  (UpperKeysOnly(rec) /\ In(L, rec)) =>
                    qout[q].events[k].summary = rec[2][L]

\* a record the loop can turn into an event: a mapping with a truthy resolved
\* summary and start_date / end_date that parse as ISO dates
WellFormed(rec, preferred) ==
    /\ IsObj(rec)
    /\ Truthy(CalGetLocalizedSummary(rec, preferred, CalFallbackLang))
    /\ FromIsoFormat(Get(rec, "start_date"))[1] = "ok"
    /\ FromIsoFormat(Get(rec, "end_date"))[1] = "ok"

StartOf(rec) == FromIsoFormat(Get(rec, "start_date"))[2]

EndOf(rec) == FromIsoFormat(Get(rec, "end_date"))[2]

\* C3: a well-formed record's event is returned iff
\* event.end >= start_date.date() and event.start <= end_date.date()
C3_InclusiveOverlap ==
    \A q \in Queries : HasSource(q) =>
        LET elems == Elements(qgot[q]) IN
        \A i \in 1..Len(elems) : WellFormed(elems[i], preferred_lang) =>
            ( (\E k \in 1..Len(qout[q].origin) : qout[q].origin[k] = i)
              <=> ( /\ DateLe(DatePart(qwin[q][1]), EndOf(elems[i]))
                    /\ DateLe(StartOf(elems[i]), DatePart(qwin[q][2])) ) )

\* C4: a query whose fetch failed (non-200 status or transport error) after
\* an earlier fetch succeeded returns the events of the last successful
\* payload that overlap its window (stated for the windows where that
\* payload has events)
C4_FailureKeepsEvents ==
    \A q \in Queries :
        ( /\ Done(q)
          /\ qfetch[q] \in {"status", "exc"}
          /\ qout[q].kind = "return"
          /\ lastGood # NoResp
          /\ lastGood[1] = "list"
          /\ BuildEvents(lastGood, preferred_lang, qwin[q][1], qwin[q][2]).events # <<>> ) =>
            qout[q] = BuildEvents(lastGood, preferred_lang, qwin[q][1], qwin[q][2])

\* the window overlaps the record's dates (the test the loop applies)
Overlaps(rec, w) ==
    /\ DateLt(DatePart(w[1]), EndOf(rec))
    /\ DateLt(StartOf(rec), DatePart(w[2]))

RECURSIVE WellFormedIndices(_, _, _)
WellFormedIndices(elems, i, preferred) ==
    IF i > Len(elems) THEN <<>>
    ELSE (IF WellFormed(elems[i], preferred) THEN <<i>> ELSE <<>>)
         \o WellFormedIndices(elems, i + 1, preferred)

\* C5: when the payload is a list and the window overlaps every well-formed
\* record, the call returns exactly one event per well-formed record, in
\* payload order, with that record's summary and dates, and none for the
\* malformed ones
C5_MalformedIsolation ==
    \A q \in Queries :
        ( /\ Done(q)
          /\ qsrc[q] \in {"url", "file"}
          /\ qgot[q][1] = "list"
          /\ \A i \in 1..Len(qgot[q][2]) :
                WellFormed(qgot[q][2][i], preferred_lang) => Overlaps(qgot[q][2][i], qwin[q]) ) =>
            /\ qout[q].kind = "return"
            /\ qout[q].origin = WellFormedIndices(qgot[q][2], 1, preferred_lang)
            /\ \A k \in 1..Len(qout[q].events) :
                  LET rec == SourceRecord(q, k) IN
                  /\ qout[q].events[k].summary =
                        CalGetLocalizedSummary(rec, preferred_lang, CalFallbackLang)
                  /\ qout[q].events[k].start = StartOf(rec)
                  /\ qout[q].events[k].end = EndOf(rec)

\* three records, the second with an invalid start_date: the first and the
\* third are returned
C5_Witness ==
    /\ Done("q1")
    /\ qsrc["q1"] = "url"
    /\ qgot["q1"] = JList(SubSeq(MasterRecords, 1, 3))
    /\ qout["q1"].origin = <<1, 3>>
    /\ Len(qout["q1"].events) = 2

\* C6: a returned event's uid is the raw record's uid when it gives one,
\* else the SHA-256 hex digest of summary + raw start_date + raw end_date;
\* it depends on nothing else (not on the window, not on the other records)
C6_UidStable ==
    \A q \in Queries : HasSource(q) =>
        \A k \in 1..Len(qout[q].events) :
            LET rec == SourceRecord(q, k)
                ev == qout[q].events[k]
            IN  ev.uid = IF Truthy(Get(rec, "uid")) THEN Get(rec, "uid")
                         ELSE Sha256Hex(PyStr(ev.summary)
                                        \o Get(rec, "start_date")[2]
                                        \o Get(rec, "end_date")[2])

\* one call returned an event with the record's own uid and one with a
\* generated uid
C6_Witness ==
    \E q \in Queries : HasSource(q) /\
        \E k1, k2 \in 1..Len(qout[q].events) :
            /\ Truthy(Get(SourceRecord(q, k1), "uid"))
            /\ qout[q].events[k1].uid = Get(SourceRecord(q, k1), "uid")
            /\ ~In("uid", SourceRecord(q, k2))
            /\ qout[q].events[k2].uid[2][1] = "sha256:"

\* C7: there is never more than one config entry, and a step of a user flow
\* taken while an entry exists aborts with single_instance_allowed and
\* creates no entry
C7_SingleInstance ==
    /\ [](Len(entries) <= 1)
    /\ [][ \A f \in Flows :
             ( /\ flows'[f] # flows[f]
               /\ entries # <<>>
               /\ flows'[f].result # "abort_not_supported" ) =>
                 /\ flows'[f].result = "abort_single_instance_allowed"
                 /\ entries' = entries ]_vars

\* an entry exists and the submit of a form shown earlier was aborted
C7_Witness ==
    /\ Len(entries) = 1
    /\ \E f \in Flows : /\ flows[f].result = "abort_single_instance_allowed"
                        /\ flows[f].shown
    /\ \E f \in Flows : flows[f].result = "create_entry"

\* C8: _async_update_data either returns a non-null payload or ends with
\* UpdateFailed, never with another exception
C8_TwoOutcomes ==
    \/ cout.kind = "none"
    \/ cout.kind = "return" /\ cout.data # None
    \/ cout.kind = "raise" /\ cout.exc = "UpdateFailed"

\* C9: async_get_events never raises
C9_NeverRaises == \A q \in Queries : qout[q].kind # "raise"

\* C10: each finished call's result is built from the one payload its own
\* response (or its own fallback load) delivered, and a finished call's
\* result is not changed by the steps of another call
C10_Atomic ==
    /\ [](\A q \in Queries : Done(q) =>
            IF qsrc[q] \in {"url", "file"}
            THEN qout[q] = BuildEvents(qgot[q], preferred_lang, qwin[q][1], qwin[q][2])
            ELSE qout[q] = Returned(<<>>))
    /\ [][ \A q \in Queries : (Done(q) /\ qpc'[q] = "done") => qout'[q] = qout[q] ]_vars

\* both callers have finished, on different payloads, each with events
C10_Witness ==
    /\ \A q \in Queries : HasSource(q) /\ qsrc[q] = "url" /\ Len(qout[q].events) > 0
    /\ qgot["q1"] # qgot["q2"]
    /\ qout["q1"] # qout["q2"]

====
